---- MODULE Spec2Model ----
(***************************************************************************)
(* The brush of src/src/cartesian/Brush.tsx: the pixel/index mapping       *)
(* (createScale, getIndexInRange, getIndex) and the drag / keyboard state  *)
(* machine of the RedoBrush function component together with the           *)
(* BrushInternal wrapper that owns the committed (startIndex, endIndex).   *)
(*                                                                         *)
(* One action is one event handler followed by the render it schedules:    *)
(* the handler reads the values of the last render (its closure), the      *)
(* state setters and the store dispatch take effect, and the effect        *)
(* cleanups of the following render run.                                   *)
(***************************************************************************)
EXTENDS Integers, Sequences, FiniteSets

\* ------------------------------------------------------------------ bounds
MaxLen == 2          \* data lengths 1..MaxLen, with every event source
MaxDragLen == 3      \* data lengths 1..MaxDragLen, with pointer and keyboard only
MaxGap == 2          \* gap 1..MaxGap
MaxPageX == 1        \* pointer pageX in 0..MaxPageX
MaxTimerLen == 1     \* data lengths 1..MaxTimerLen, with the timers and the unmount
MaxTextLen == 1      \* data lengths 1..MaxTextLen, with hover and focus
MaxDegenerateLen == 2  \* data lengths 0..MaxDegenerateLen, with degenerate geometry
MaxOrphans == 1      \* leave timers that are pending but no longer in leaveTimerRef

\* the geometry the track is drawn from: its x, and the pixels between two
\* adjacent data points (2 leaves one pixel between two table coordinates)
TrackXs == {1}
StepPxs == {2}

\* a width that is not positive, next to the widths of a track, and a track x
\* that keeps the coordinates of such a width above zero
DegenerateWidths == {0 - 1}
DegenerateTrackXs == {7}

\* program constant: Brush.defaultProps.travellerWidth
TravellerWidth == 5

\* the inputs of a scale that is built alone
MaxScaleLen == 3     \* data lengths 0..MaxScaleLen
MaxScaleX == 2       \* track x in 0..MaxScaleX
MaxScaleWidth == 9   \* track widths 0..MaxScaleWidth
ScaleTravellerWidths == {1, TravellerWidth}

\* the inputs of an index lookup that is followed alone
MaxTableLen == 5     \* coordinate tables of 1..MaxTableLen coordinates
MaxCoord == 2        \* coordinates 0..MaxCoord, looked up from -1 to MaxCoord + 1

\* the inputs of a pair of indices that is computed alone
MaxIndicesLen == 4   \* data lengths 1..MaxIndicesLen

\* the inputs of a selection of ticks that is followed alone
MaxTicks == 6        \* 0..MaxTicks candidate ticks
MaxTickStep == 2     \* 1..MaxTickStep pixels between two neighbouring ticks
MaxInterval == 2     \* a number as interval in 0..MaxInterval
MaxMinGap == 3       \* minimum gap 0..MaxMinGap pixels

\* the inputs of an axis domain that is computed alone
MaxCategories == 4   \* lists of 0..MaxCategories values
MaxCategory == 3     \* values 1..MaxCategory
MaxTickCount == 7    \* tickCount, as a number, in -1..MaxTickCount


VARIABLES
  dataLen,             \* props.data.length
  gap,                 \* props.gap
  brushX,              \* props.x
  width,               \* props.width
  startIndex,          \* committed window (store), passed down as props.startIndex
  endIndex,            \* committed window (store), passed down as props.endIndex
  travellerPositions,  \* useState: [startX, endX]
  isTravellerMoving,   \* useState
  isSlideMoving,       \* useState
  movingTravellerId,   \* useState: "startX", "endX" or "undefined"
  brushMoveStartX,     \* useState: last pointer X of a traveller drag (-1: undefined)
  slideMoveStartX,     \* useState: last pointer X of a slide drag (-1: undefined)
  isTextActive,        \* useState
  isTravellerFocused,  \* useState
  leaveTimer,          \* leaveTimerRef.current holds a pending timeout
  orphanTimers,        \* pending timeouts whose id was overwritten in leaveTimerRef,
                       \* each with the window its handleDragEnd closure holds
  mounted,             \* the component is mounted
  alwaysShowText,      \* props.alwaysShowText
  yHeightOk,           \* props.y and props.height are numbers and height > 0
  listeners,           \* the event types RedoBrush has a listener on window for
  calls,               \* observation: the callbacks the last handler invoked, in order
  fnArgs,              \* the arguments of a call of one of the pure functions
  fnRet                \* that call's local variables, and then what it returned

vars == <<dataLen, gap, brushX, width, startIndex, endIndex, travellerPositions,
          isTravellerMoving, isSlideMoving, movingTravellerId, brushMoveStartX,
          slideMoveStartX, isTextActive, isTravellerFocused, leaveTimer,
          orphanTimers, mounted, alwaysShowText, yHeightOk, listeners, calls,
          fnArgs, fnRet>>

\* what a render of RedoBrush depends on: a change of any of it re-renders
reactState == <<startIndex, endIndex, travellerPositions, isTravellerMoving,
                isSlideMoving, movingTravellerId, brushMoveStartX, slideMoveStartX,
                isTextActive, isTravellerFocused>>

Undefined == 0 - 1

\* no call of a pure function is being followed
NoCall == [fn |-> "none"]
TravellerIds == {"startX", "endX"}
PageXs == 0..MaxPageX

Min2(a, b) == IF a <= b THEN a ELSE b
Max2(a, b) == IF a >= b THEN a ELSE b

\* ------------------------------------------------------- PositionalScale
\* a point scale that lays its points out from the start of the range, also the
\* only point of one
scalePointFromStart(len, lo, hi, i) ==
  lo + i * ((hi - lo) \div Max2(1, len - 1))

\* d3 scalePoint over the domain 0..len-1 and the range [lo, hi]: the first
\* point at lo, the last at hi, equal steps; a single point sits mid-range.
scalePoint(len, lo, hi, i) ==
  IF len = 1 THEN lo + (hi - lo) \div 2
  ELSE lo + i * ((hi - lo) \div (len - 1))

\* what createScale returns without data: an object with no field
EmptyScale == [startX |-> Undefined, endX |-> Undefined, scaleValues |-> <<>>]

\* createScale: the coordinate table and the coordinates of the two indices
createScale(len, sIdx, eIdx, x, w, tw) ==
  IF len = 0 THEN EmptyScale
  ELSE [startX |-> scalePoint(len, x, x + w - tw, sIdx),
        endX |-> scalePoint(len, x, x + w - tw, eIdx),
        scaleValues |-> [i \in 1..len |-> scalePoint(len, x, x + w - tw, i - 1)]]

\* -------------------------------------------------------------- IndexLocator
\* a loop that goes on until the interval is a single index
searchContinuesToOne(start, end) == end - start > 0

\* getIndexInRange, the condition of its loop
searchContinues(start, end) == end - start > 1

\* an iteration that keeps the half of the interval the loop drops
searchNarrowFlipped(valueRange, x, start, end) ==
  LET middle == (start + end) \div 2
  IN IF valueRange[middle + 1] < x THEN <<start, middle>> ELSE <<middle, end>>

\* getIndexInRange, one iteration of its loop: the interval after it
searchNarrow(valueRange, x, start, end) ==
  LET middle == (start + end) \div 2
  IN IF valueRange[middle + 1] > x THEN <<start, middle>> ELSE <<middle, end>>

\* a return that picks the nearer of the two coordinates
searchReturnNearest(valueRange, x, start, end) ==
  IF valueRange[end + 1] - x < x - valueRange[start + 1] THEN end ELSE start

\* getIndexInRange, its return after the loop
searchReturn(valueRange, x, start, end) ==
  IF x >= valueRange[end + 1] THEN end ELSE start

\* getIndexInRange, its loop: the interval it ends with
RECURSIVE searchRange(_, _, _, _)
searchRange(valueRange, x, start, end) ==
  IF searchContinues(start, end)
  THEN LET r == searchNarrow(valueRange, x, start, end)
       IN searchRange(valueRange, x, r[1], r[2])
  ELSE <<start, end>>

getIndexInRange(valueRange, x) ==
  LET r == searchRange(valueRange, x, 0, Len(valueRange) - 1)
  IN searchReturn(valueRange, x, r[1], r[2])

\* a getIndex that takes the two coordinates in the order they are given
getIndexUnordered(startX, endX, scaleValues, g, len) ==
  LET lastIndex == len - 1
      minIndex == getIndexInRange(scaleValues, startX)
      maxIndex == getIndexInRange(scaleValues, endX)
  IN [startIndex |-> minIndex - (minIndex % g),
      endIndex |-> IF maxIndex = lastIndex THEN lastIndex ELSE maxIndex - (maxIndex % g)]

getIndexNoSnap(startX, endX, scaleValues, g, len) ==
  [startIndex |-> getIndexInRange(scaleValues, Min2(startX, endX)),
   endIndex |-> getIndexInRange(scaleValues, Max2(startX, endX))]

getIndex(startX, endX, scaleValues, g, len) ==
  LET lastIndex == len - 1
      minIndex == getIndexInRange(scaleValues, Min2(startX, endX))
      maxIndex == getIndexInRange(scaleValues, Max2(startX, endX))
  IN [startIndex |-> minIndex - (minIndex % g),
      endIndex |-> IF maxIndex = lastIndex THEN lastIndex ELSE maxIndex - (maxIndex % g)]

\* ---------------------------------------------------------- BrushController
NoPositions == [startX |-> Undefined, endX |-> Undefined]

\* a render that takes the positions from the scale every time
renderTravellerPositionsAlways(positions, len, sIdx, eIdx, w) ==
  LET s == createScale(len, sIdx, eIdx, brushX, w, TravellerWidth)
  IN [startX |-> s.startX, endX |-> s.endX]

\* RedoBrush, render: with data there is a scale, and the positions are taken
\* from it only while unset
renderTravellerPositions(positions, len, sIdx, eIdx, w) ==
  IF len > 0 /\ positions = NoPositions
  THEN LET s == createScale(len, sIdx, eIdx, brushX, w, TravellerWidth)
       IN [startX |-> s.startX, endX |-> s.endX]
  ELSE positions

scaleValuesOf(len, w) == createScale(len, 0, 0, brushX, w, TravellerWidth).scaleValues

\* a delta that is not clamped at the end of the track
travellerDeltaNoUpper(pageX, moveStartX, prevValue, x, w, tw) ==
  LET delta == pageX - moveStartX
  IN IF delta < 0 THEN Max2(delta, x - prevValue) ELSE delta

\* a delta that is not clamped at the start of the track
travellerDeltaNoLower(pageX, moveStartX, prevValue, x, w, tw) ==
  LET delta == pageX - moveStartX
  IN IF delta > 0 THEN Min2(delta, x + w - tw - prevValue) ELSE delta

\* handleTravellerMove: the pointer delta, clamped to the track
travellerDelta(pageX, moveStartX, prevValue, x, w, tw) ==
  LET delta == pageX - moveStartX
  IN IF delta > 0 THEN Min2(delta, x + w - tw - prevValue)
     ELSE IF delta < 0 THEN Max2(delta, x - prevValue)
     ELSE delta

\* handleTravellerMove: getIndex({ ...params, startX, endX }); the startX and
\* endX of the render come after the spread and replace the moved coordinate
travellerNewIndex(id, moved, startX, endX, scaleValues, g, len) ==
  getIndex(startX, endX, scaleValues, g, len)

\* handleTravellerMove.isFullGap
isFullGap(id, startX, endX, newStart, newEnd, g, len) ==
  LET lastIndex == len - 1
  IN \/ id = "startX" /\ (IF endX > startX THEN newStart % g = 0 ELSE newEnd % g = 0)
     \/ endX < startX /\ newEnd = lastIndex
     \/ id = "endX" /\ (IF endX > startX THEN newEnd % g = 0 ELSE newStart % g = 0)
     \/ endX > startX /\ newEnd = lastIndex

\* handleSlideDrag: the pointer delta, clamped so that neither handle leaves the track
slideDelta(pageX, slideStartX, startX, endX, x, w, tw) ==
  LET delta == pageX - slideStartX
  IN IF delta > 0 THEN Min2(Min2(delta, x + w - tw - endX), x + w - tw - startX)
     ELSE IF delta < 0 THEN Max2(Max2(delta, x - startX), x - endX)
     ELSE delta

\* handleSlideDrag: the window of the shifted positions
slideNewIndex(startX, endX, delta, scaleValues, g, len) ==
  getIndex(startX + delta, endX + delta, scaleValues, g, len)

\* a slide that calls onChange without comparing with the committed window
slideEmitsAlways(newIndex, sIdx, eIdx, g, len) == TRUE

\* handleSlideDrag: onChange is called when the window of the shifted positions
\* differs from the committed one
slideEmits(newIndex, sIdx, eIdx, g, len) ==
  newIndex.startIndex # sIdx \/ newIndex.endIndex # eIdx

\* a slide that shifts the start handle alone
slideTravellerPositionsStartOnly(prev, delta) ==
  [startX |-> prev.startX + delta, endX |-> prev.endX]

\* handleSlideDrag: setTravellerPositions
slideTravellerPositions(prev, delta) ==
  [startX |-> prev.startX + delta, endX |-> prev.endX + delta]

\* an overlap test that lets a handle land on the other one
keyboardRefusedStrict(id, newScaleValue, startX, endX) ==
  \/ id = "startX" /\ newScaleValue > endX
  \/ id = "endX" /\ newScaleValue < startX

\* handleTravellerMoveKeyboard: the overlap test
keyboardRefused(id, newScaleValue, startX, endX) ==
  \/ id = "startX" /\ newScaleValue >= endX
  \/ id = "endX" /\ newScaleValue <= startX

\* an indexOf that counts from 1
indexOfOneBased(scaleValues, v) ==
  IF \E i \in 1..Len(scaleValues) : scaleValues[i] = v
  THEN CHOOSE i \in 1..Len(scaleValues) :
         scaleValues[i] = v /\ \A j \in 1..(i - 1) : scaleValues[j] # v
  ELSE 0 - 1

\* Array.prototype.indexOf over the coordinate table (0-based, -1 when absent)
indexOf(scaleValues, v) ==
  IF \E i \in 1..Len(scaleValues) : scaleValues[i] = v
  THEN (CHOOSE i \in 1..Len(scaleValues) :
          scaleValues[i] = v /\ \A j \in 1..(i - 1) : scaleValues[j] # v) - 1
  ELSE 0 - 1

\* one invocation of a callback: props.onChange of RedoBrush, props.onDragEnd,
\* or the store dispatch of BrushInternal's effect
Call(fn, from, sIdx, eIdx) ==
  [fn |-> fn, from |-> from, arg |-> [startIndex |-> sIdx, endIndex |-> eIdx]]

\* a comparison that takes every window for a new one
windowDiffersAlways(nextState, sIdx, eIdx) == TRUE

\* BrushInternal.onChange: nextState is not the committed window
windowDiffers(nextState, sIdx, eIdx) ==
  nextState.startIndex # sIdx \/ nextState.endIndex # eIdx

\* BrushInternal.onChange: the committed window after the onChange calls of one handler
BrushInternalOnChange(cs, sIdx, eIdx) ==
  IF cs # <<>> /\ windowDiffers(cs[1].arg, sIdx, eIdx)
  THEN cs[1].arg
  ELSE [startIndex |-> sIdx, endIndex |-> eIdx]

\* BrushInternal.onChange: the calls of one handler, followed by the call of the
\* user's onChange that BrushInternal.onChange makes for a window that differs
onChangeCalls(cs, sIdx, eIdx) ==
  IF cs # <<>> /\ windowDiffers(cs[1].arg, sIdx, eIdx)
  THEN Append(cs, Call("onChangeFromProps", "BrushInternal",
                       cs[1].arg.startIndex, cs[1].arg.endIndex))
  ELSE cs

isDragging == isTravellerMoving \/ isSlideMoving

\* RedoBrush, render: the brush and its handlers are rendered (null is returned
\* for no data, a width or height that is not positive, a y or height that is no
\* number)
rendersBrush == dataLen > 0 /\ width > 0 /\ yHeightOk

AllListeners == {"mouseup", "touchend", "mousemove"}

\* an effect that attaches the listeners at every render
effectListenersAlways(dragging) == AllListeners

\* the effect on [handleDrag, handleDragEnd, isSlideMoving, isTravellerMoving]:
\* its cleanup removes the listeners of the last render, its body attaches those
\* of this render while a drag is in progress
effectListeners(dragging) == IF dragging THEN AllListeners ELSE {}

\* the render a handler schedules when it changes state: handleDrag is a new
\* function at every render (scaleValues is a new array each time), so the
\* cleanup of the effect on [handleDrag, handleDragEnd] clears leaveTimerRef and
\* the listener effect runs again; without a render both stay as the handler
\* left them
AfterHandler(rendered, timerAfterHandler, listenersAfterHandler) ==
  /\ leaveTimer' = IF rendered \/ reactState' # reactState THEN FALSE ELSE timerAfterHandler
  /\ listeners' = IF rendered \/ reactState' # reactState
                  THEN effectListeners(isTravellerMoving' \/ isSlideMoving')
                  ELSE listenersAfterHandler

AfterRender(rendered, timerAfterHandler) ==
  AfterHandler(rendered, timerAfterHandler, listeners)

\* the state after the first render of a brush over maxLen data points at most
InitLen(maxLen) ==
  /\ dataLen \in 1..maxLen
  /\ gap \in 1..MaxGap
  /\ brushX \in TrackXs
  /\ \E step \in StepPxs : width = TravellerWidth + step * Max2(1, dataLen - 1)
  /\ startIndex \in 0..(dataLen - 1)
  /\ endIndex \in startIndex..(dataLen - 1)
  /\ travellerPositions =
       renderTravellerPositions(NoPositions, dataLen, startIndex, endIndex, width)
  /\ isTravellerMoving = FALSE
  /\ isSlideMoving = FALSE
  /\ movingTravellerId = "undefined"
  /\ brushMoveStartX = Undefined
  /\ slideMoveStartX = Undefined
  /\ isTextActive = FALSE
  /\ isTravellerFocused = FALSE
  /\ leaveTimer = FALSE
  /\ orphanTimers = <<>>
  /\ mounted = TRUE
  /\ alwaysShowText = FALSE
  /\ yHeightOk = TRUE
  /\ listeners = {}
  /\ calls = <<>>
  /\ fnArgs = NoCall
  /\ fnRet = NoCall

Init == InitLen(MaxLen)

InitDrag == InitLen(MaxDragLen)

\* handleTravellerDragStart without its setIsSlideMoving(false)
TravellerDragStartKeepsSlide(id, pageX) ==
  /\ mounted
  /\ rendersBrush
  /\ isTravellerMoving' = TRUE
  /\ movingTravellerId' = id
  /\ brushMoveStartX' = pageX
  /\ calls' = <<>>
  /\ UNCHANGED <<fnArgs, fnRet, dataLen, gap, brushX, width, alwaysShowText, yHeightOk, startIndex, endIndex, travellerPositions,
                 isSlideMoving, slideMoveStartX, isTextActive, isTravellerFocused, orphanTimers, mounted>>
  /\ AfterRender(FALSE, leaveTimer)

\* handleTravellerDragStart
TravellerDragStart(id, pageX) ==
  /\ mounted
  /\ rendersBrush
  /\ isSlideMoving' = FALSE
  /\ isTravellerMoving' = TRUE
  /\ movingTravellerId' = id
  /\ brushMoveStartX' = pageX
  /\ calls' = <<>>
  /\ UNCHANGED <<fnArgs, fnRet, dataLen, gap, brushX, width, alwaysShowText, yHeightOk, startIndex, endIndex, travellerPositions,
                 slideMoveStartX, isTextActive, isTravellerFocused, orphanTimers, mounted>>
  /\ AfterRender(FALSE, leaveTimer)

\* handleSlideDragStart
SlideDragStart(pageX) ==
  /\ mounted
  /\ rendersBrush
  /\ isTravellerMoving' = FALSE
  /\ isSlideMoving' = TRUE
  /\ slideMoveStartX' = pageX
  /\ calls' = <<>>
  /\ UNCHANGED <<fnArgs, fnRet, dataLen, gap, brushX, width, alwaysShowText, yHeightOk, startIndex, endIndex, travellerPositions,
                 movingTravellerId, brushMoveStartX, isTextActive, isTravellerFocused,
                 orphanTimers, mounted>>
  /\ AfterRender(FALSE, leaveTimer)

\* handleDrag -> handleTravellerMove
TravellerMove(pageX) ==
  /\ mounted
  /\ isTravellerMoving
  /\ LET id == movingTravellerId
         startX == travellerPositions.startX
         endX == travellerPositions.endX
         prevValue == travellerPositions[id]
     IN \E delta \in {travellerDelta(pageX, brushMoveStartX, prevValue,
                                     brushX, width, TravellerWidth)} :
        \E newIndex \in {travellerNewIndex(id, prevValue + delta, startX, endX,
                                           scaleValuesOf(dataLen, width), gap, dataLen)} :
        \E cs \in {IF isFullGap(id, startX, endX, newIndex.startIndex,
                                newIndex.endIndex, gap, dataLen)
                   THEN <<Call("onChange", "handleTravellerMove",
                               newIndex.startIndex, newIndex.endIndex)>>
                   ELSE <<>>} :
        \E next \in {BrushInternalOnChange(cs, startIndex, endIndex)} :
        /\ calls' = onChangeCalls(cs, startIndex, endIndex)
        /\ startIndex' = next.startIndex
        /\ endIndex' = next.endIndex
        /\ travellerPositions' =
             renderTravellerPositions([travellerPositions EXCEPT ![id] = prevValue + delta],
                                      dataLen, next.startIndex, next.endIndex, width)
  /\ brushMoveStartX' = pageX
  /\ UNCHANGED <<fnArgs, fnRet, dataLen, gap, brushX, width, alwaysShowText, yHeightOk, isTravellerMoving, isSlideMoving, movingTravellerId,
                 slideMoveStartX, isTextActive, isTravellerFocused, orphanTimers, mounted>>
  /\ AfterRender(TRUE, FALSE)

\* handleDrag -> handleSlideDrag
SlideDrag(pageX) ==
  /\ mounted
  /\ ~isTravellerMoving
  /\ isSlideMoving
  /\ LET startX == travellerPositions.startX
         endX == travellerPositions.endX
     IN \E delta \in {slideDelta(pageX, slideMoveStartX, startX, endX,
                                 brushX, width, TravellerWidth)} :
        \E newIndex \in {slideNewIndex(startX, endX, delta,
                                       scaleValuesOf(dataLen, width), gap, dataLen)} :
        \E cs \in {IF slideEmits(newIndex, startIndex, endIndex, gap, dataLen)
                   THEN <<Call("onChange", "handleSlideDrag",
                               newIndex.startIndex, newIndex.endIndex)>>
                   ELSE <<>>} :
        \E next \in {BrushInternalOnChange(cs, startIndex, endIndex)} :
        /\ calls' = onChangeCalls(cs, startIndex, endIndex)
        /\ startIndex' = next.startIndex
        /\ endIndex' = next.endIndex
        /\ travellerPositions' =
             renderTravellerPositions(slideTravellerPositions(travellerPositions, delta),
                                      dataLen, next.startIndex, next.endIndex, width)
  /\ slideMoveStartX' = pageX
  /\ UNCHANGED <<fnArgs, fnRet, dataLen, gap, brushX, width, alwaysShowText, yHeightOk, isTravellerMoving, isSlideMoving, movingTravellerId,
                 brushMoveStartX, isTextActive, isTravellerFocused, orphanTimers, mounted>>
  /\ AfterRender(TRUE, FALSE)

\* handleTouchMove -> handleDrag while no drag is in progress
IdleMove ==
  /\ mounted
  /\ rendersBrush
  /\ ~isDragging
  /\ calls' = <<>>
  /\ UNCHANGED <<fnArgs, fnRet, dataLen, gap, brushX, width, alwaysShowText, yHeightOk, startIndex, endIndex, travellerPositions,
                 isTravellerMoving, isSlideMoving, movingTravellerId, brushMoveStartX,
                 slideMoveStartX, isTextActive, isTravellerFocused, orphanTimers, mounted>>
  /\ AfterRender(FALSE, FALSE)

\* handleDragEnd, as the global mouseup / touchend listener
DragEnd ==
  /\ mounted
  /\ isDragging
  /\ isTravellerMoving' = FALSE
  /\ isSlideMoving' = FALSE
  /\ calls' = <<Call("onDragEnd", "release", startIndex, endIndex)>>
  /\ UNCHANGED <<fnArgs, fnRet, dataLen, gap, brushX, width, alwaysShowText, yHeightOk, startIndex, endIndex, travellerPositions,
                 movingTravellerId, brushMoveStartX, slideMoveStartX, isTextActive,
                 isTravellerFocused, orphanTimers, mounted>>
  /\ AfterHandler(FALSE, leaveTimer, listeners \ {"mousemove"})

\* handleLeaveWrapper: window.setTimeout(handleDragEnd, leaveTimeOut) while a drag
\* is in progress; the id of a timeout that is still pending is overwritten
LeaveWrapper ==
  /\ mounted
  /\ rendersBrush
  /\ isDragging /\ leaveTimer => Len(orphanTimers) < MaxOrphans
  /\ orphanTimers' = IF isDragging /\ leaveTimer
                     THEN Append(orphanTimers, [startIndex |-> startIndex,
                                                endIndex |-> endIndex])
                     ELSE orphanTimers
  /\ calls' = <<>>
  /\ UNCHANGED <<fnArgs, fnRet, dataLen, gap, brushX, width, alwaysShowText, yHeightOk, startIndex, endIndex, travellerPositions,
                 isTravellerMoving, isSlideMoving, movingTravellerId, brushMoveStartX,
                 slideMoveStartX, isTextActive, isTravellerFocused, mounted>>
  /\ AfterRender(FALSE, isDragging \/ leaveTimer)

\* the timeout of leaveTimerRef.current fires: handleDragEnd
LeaveTimeout ==
  /\ leaveTimer
  /\ isTravellerMoving' = FALSE
  /\ isSlideMoving' = FALSE
  /\ calls' = <<Call("onDragEnd", "leaveTimer", startIndex, endIndex)>>
  /\ UNCHANGED <<fnArgs, fnRet, dataLen, gap, brushX, width, alwaysShowText, yHeightOk, startIndex, endIndex, travellerPositions,
                 movingTravellerId, brushMoveStartX, slideMoveStartX, isTextActive,
                 isTravellerFocused, orphanTimers, mounted>>
  /\ AfterHandler(FALSE, FALSE, listeners \ {"mousemove"})

\* a timeout whose id was overwritten in leaveTimerRef fires: handleDragEnd
OrphanTimeout ==
  /\ orphanTimers # <<>>
  /\ orphanTimers' = Tail(orphanTimers)
  /\ isTravellerMoving' = IF mounted THEN FALSE ELSE isTravellerMoving
  /\ isSlideMoving' = IF mounted THEN FALSE ELSE isSlideMoving
  /\ calls' = <<Call("onDragEnd", "leaveTimer",
                     Head(orphanTimers).startIndex, Head(orphanTimers).endIndex)>>
  /\ UNCHANGED <<fnArgs, fnRet, dataLen, gap, brushX, width, alwaysShowText, yHeightOk, startIndex, endIndex, travellerPositions,
                 movingTravellerId, brushMoveStartX, slideMoveStartX, isTextActive,
                 isTravellerFocused, mounted>>
  /\ AfterRender(FALSE, leaveTimer)

\* handleTravellerMoveKeyboard: the move is made (none of the early returns)
keyboardAccepted(direction, id, positions, scaleValues) ==
  LET currentIndex == indexOf(scaleValues, positions[id])
      newIndex == currentIndex + direction
  IN /\ currentIndex # 0 - 1
     /\ newIndex # 0 - 1
     /\ newIndex < Len(scaleValues)
     /\ ~keyboardRefused(id, scaleValues[newIndex + 1], positions.startX, positions.endX)

\* handleTravellerMoveKeyboard
TravellerMoveKeyboard(direction, id) ==
  /\ mounted
  /\ rendersBrush
  /\ \E scaleValues \in {scaleValuesOf(dataLen, width)} :
     \E accepted \in {keyboardAccepted(direction, id, travellerPositions, scaleValues)} :
       LET startX == travellerPositions.startX
           endX == travellerPositions.endX
           newScaleValue ==
             scaleValues[indexOf(scaleValues, travellerPositions[id]) + direction + 1]
       IN \E cs \in {IF accepted
                     THEN LET newIndex == getIndex(startX, endX, scaleValues, gap, dataLen)
                          IN <<Call("onChange", "handleTravellerMoveKeyboard",
                                    newIndex.startIndex, newIndex.endIndex)>>
                     ELSE <<>>} :
          \E next \in {BrushInternalOnChange(cs, startIndex, endIndex)} :
          /\ calls' = onChangeCalls(cs, startIndex, endIndex)
          /\ startIndex' = next.startIndex
          /\ endIndex' = next.endIndex
          /\ travellerPositions' =
               IF accepted
               THEN renderTravellerPositions(
                      [travellerPositions EXCEPT ![id] = newScaleValue],
                      dataLen, next.startIndex, next.endIndex, width)
               ELSE travellerPositions
          /\ UNCHANGED <<fnArgs, fnRet, dataLen, gap, brushX, width, alwaysShowText, yHeightOk, isTravellerMoving, isSlideMoving,
                         movingTravellerId, brushMoveStartX, slideMoveStartX, isTextActive,
                         isTravellerFocused, orphanTimers, mounted>>
          /\ AfterRender(accepted, leaveTimer)

\* BrushInternal: the startIndex / endIndex props change and the effect dispatches
\* them to the store; RedoBrush renders with the new window
ExternalChange(sIdx, eIdx) ==
  /\ mounted
  /\ <<sIdx, eIdx>> # <<startIndex, endIndex>>
  /\ startIndex' = sIdx
  /\ endIndex' = eIdx
  /\ travellerPositions' =
       renderTravellerPositions(travellerPositions, dataLen, sIdx, eIdx, width)
  /\ calls' = <<Call("dispatch", "BrushInternal", sIdx, eIdx)>>
  /\ UNCHANGED <<fnArgs, fnRet, dataLen, gap, brushX, width, alwaysShowText, yHeightOk, isTravellerMoving, isSlideMoving, movingTravellerId,
                 brushMoveStartX, slideMoveStartX, isTextActive, isTravellerFocused,
                 orphanTimers, mounted>>
  /\ AfterRender(TRUE, FALSE)

\* handleEnterSlideOrTraveller (entered = TRUE) and handleLeaveSlideOrTraveller
SetTextActive(entered) ==
  /\ mounted
  /\ rendersBrush
  /\ isTextActive' = entered
  /\ calls' = <<>>
  /\ UNCHANGED <<fnArgs, fnRet, dataLen, gap, brushX, width, alwaysShowText, yHeightOk, startIndex, endIndex,
                 travellerPositions, isTravellerMoving, isSlideMoving, movingTravellerId,
                 brushMoveStartX, slideMoveStartX, isTravellerFocused, orphanTimers, mounted>>
  /\ AfterRender(FALSE, leaveTimer)

\* onFocus (focused = TRUE) and onBlur of a TravellerLayer
SetTravellerFocused(focused) ==
  /\ mounted
  /\ rendersBrush
  /\ isTravellerFocused' = focused
  /\ calls' = <<>>
  /\ UNCHANGED <<fnArgs, fnRet, dataLen, gap, brushX, width, alwaysShowText, yHeightOk, startIndex, endIndex,
                 travellerPositions, isTravellerMoving, isSlideMoving, movingTravellerId,
                 brushMoveStartX, slideMoveStartX, isTextActive, orphanTimers, mounted>>
  /\ AfterRender(FALSE, leaveTimer)

\* a render that does not show BrushText for a focused handle
isTextVisibleWithoutFocus ==
  isTextActive \/ isSlideMoving \/ isTravellerMoving \/ alwaysShowText

\* RedoBrush, render: BrushText is rendered
isTextVisible ==
  isTextActive \/ isSlideMoving \/ isTravellerMoving \/ isTravellerFocused \/ alwaysShowText

\* unmount: the cleanups of both effects run; a timeout that is no longer in
\* leaveTimerRef stays pending
Unmount ==
  /\ mounted
  /\ mounted' = FALSE
  /\ leaveTimer' = FALSE
  /\ listeners' = {}
  /\ calls' = <<>>
  /\ UNCHANGED <<fnArgs, fnRet, dataLen, gap, brushX, width, alwaysShowText, yHeightOk, startIndex, endIndex,
                 travellerPositions, isTravellerMoving, isSlideMoving, movingTravellerId,
                 brushMoveStartX, slideMoveStartX, isTextActive, isTravellerFocused,
                 orphanTimers>>

\* the parent passes another width, y or height between two drags: RedoBrush
\* renders again
GeometryChange(w, ok) ==
  /\ mounted
  /\ ~isDragging
  /\ <<w, ok>> # <<width, yHeightOk>>
  /\ width' = w
  /\ yHeightOk' = ok
  /\ travellerPositions' =
       renderTravellerPositions(travellerPositions, dataLen, startIndex, endIndex, w)
  /\ calls' = <<>>
  /\ UNCHANGED <<fnArgs, fnRet, dataLen, gap, brushX, alwaysShowText, startIndex, endIndex,
                 isTravellerMoving, isSlideMoving, movingTravellerId, brushMoveStartX,
                 slideMoveStartX, isTextActive, isTravellerFocused, orphanTimers, mounted>>
  /\ AfterRender(TRUE, FALSE)

\* the chart data arrives where there was none: RedoBrush renders again
DataArrives(len, sIdx, eIdx) ==
  /\ mounted
  /\ dataLen = 0
  /\ dataLen' = len
  /\ startIndex' = sIdx
  /\ endIndex' = eIdx
  /\ travellerPositions' =
       renderTravellerPositions(travellerPositions, len, sIdx, eIdx, width)
  /\ calls' = <<>>
  /\ UNCHANGED <<fnArgs, fnRet, gap, brushX, width, alwaysShowText, yHeightOk,
                 isTravellerMoving, isSlideMoving, movingTravellerId, brushMoveStartX,
                 slideMoveStartX, isTextActive, isTravellerFocused, orphanTimers, mounted>>
  /\ AfterRender(TRUE, FALSE)

\* the pointer events of a drag
Pointer ==
  \/ \E id \in TravellerIds, pageX \in PageXs : TravellerDragStart(id, pageX)
  \/ \E pageX \in PageXs : SlideDragStart(pageX)
  \/ \E pageX \in PageXs : TravellerMove(pageX)
  \/ \E pageX \in PageXs : SlideDrag(pageX)
  \/ DragEnd

Keyboard ==
  \E direction \in {0 - 1, 1}, id \in TravellerIds : TravellerMoveKeyboard(direction, id)

\* pointer and keyboard interaction with the window, and its external changes
Next ==
  \/ Pointer
  \/ Keyboard
  \/ \E sIdx, eIdx \in 0..(dataLen - 1) : ExternalChange(sIdx, eIdx)

Spec == Init /\ [][Next]_vars

\* pointer and keyboard interaction alone, over longer data
NextDrag ==
  \/ Pointer
  \/ Keyboard

SpecDrag == InitDrag /\ [][NextDrag]_vars

\* the drag session: the pointer events, the pointer leaving the component and
\* the leave timeouts
NextSession ==
  \/ Pointer
  \/ IdleMove
  \/ LeaveWrapper
  \/ LeaveTimeout
  \/ OrphanTimeout

SpecSession == Init /\ [][NextSession]_vars

\* the drag session and the end of the component's life, over a single data point
InitUnmount == InitLen(MaxTimerLen)

NextUnmount ==
  \/ NextSession
  \/ Unmount

SpecUnmount == InitUnmount /\ [][NextUnmount]_vars

\* the leave timeout among all other events
NextLeave ==
  \/ Next
  \/ LeaveWrapper
  \/ LeaveTimeout
  \/ OrphanTimeout

SpecLeave == Init /\ [][NextLeave]_vars

\* data that may be missing and geometry that may be degenerate
Widths == DegenerateWidths \cup {TravellerWidth + step : step \in StepPxs}

InitDegenerate ==
  /\ dataLen \in 0..MaxDegenerateLen
  /\ gap \in 1..MaxGap
  /\ brushX \in DegenerateTrackXs
  /\ width \in Widths
  /\ yHeightOk \in BOOLEAN
  /\ startIndex \in 0..Max2(0, dataLen - 1)
  /\ endIndex \in startIndex..Max2(0, dataLen - 1)
  /\ travellerPositions =
       renderTravellerPositions(NoPositions, dataLen, startIndex, endIndex, width)
  /\ isTravellerMoving = FALSE
  /\ isSlideMoving = FALSE
  /\ movingTravellerId = "undefined"
  /\ brushMoveStartX = Undefined
  /\ slideMoveStartX = Undefined
  /\ isTextActive = FALSE
  /\ isTravellerFocused = FALSE
  /\ leaveTimer = FALSE
  /\ orphanTimers = <<>>
  /\ mounted = TRUE
  /\ alwaysShowText = FALSE
  /\ listeners = {}
  /\ calls = <<>>
  /\ fnArgs = NoCall
  /\ fnRet = NoCall

NextDegenerate ==
  \/ \E w \in Widths, ok \in BOOLEAN : GeometryChange(w, ok)
  \/ \E len \in 1..MaxDegenerateLen :
       \E sIdx \in 0..(len - 1) : \E eIdx \in sIdx..(len - 1) : DataArrives(len, sIdx, eIdx)
  \/ Pointer

SpecDegenerate == InitDegenerate /\ [][NextDegenerate]_vars

\* hover, focus and drag, with either value of alwaysShowText
InitText ==
  /\ dataLen \in 1..MaxTextLen
  /\ gap \in 1..MaxGap
  /\ brushX \in TrackXs
  /\ \E step \in StepPxs : width = TravellerWidth + step * Max2(1, dataLen - 1)
  /\ startIndex \in 0..(dataLen - 1)
  /\ endIndex \in startIndex..(dataLen - 1)
  /\ travellerPositions =
       renderTravellerPositions(NoPositions, dataLen, startIndex, endIndex, width)
  /\ isTravellerMoving = FALSE
  /\ isSlideMoving = FALSE
  /\ movingTravellerId = "undefined"
  /\ brushMoveStartX = Undefined
  /\ slideMoveStartX = Undefined
  /\ isTextActive = FALSE
  /\ isTravellerFocused = FALSE
  /\ leaveTimer = FALSE
  /\ orphanTimers = <<>>
  /\ mounted = TRUE
  /\ alwaysShowText \in BOOLEAN
  /\ yHeightOk = TRUE
  /\ listeners = {}
  /\ calls = <<>>
  /\ fnArgs = NoCall
  /\ fnRet = NoCall

NextText ==
  \/ \E entered \in BOOLEAN : SetTextActive(entered)
  \/ \E focused \in BOOLEAN : SetTravellerFocused(focused)
  \/ \E id \in TravellerIds, pageX \in PageXs : TravellerDragStart(id, pageX)
  \/ \E pageX \in PageXs : SlideDragStart(pageX)
  \/ DragEnd

SpecText == InitText /\ [][NextText]_vars

\* ------------------------------------------------- the pure functions alone
\* the brush is not on the page while one of its functions is followed alone
brushVars == <<dataLen, gap, brushX, width, startIndex, endIndex, travellerPositions,
               isTravellerMoving, isSlideMoving, movingTravellerId, brushMoveStartX,
               slideMoveStartX, isTextActive, isTravellerFocused, leaveTimer,
               orphanTimers, mounted, alwaysShowText, yHeightOk, listeners, calls>>

NoBrush ==
  /\ dataLen = 0
  /\ gap = 1
  /\ brushX = 0
  /\ width = 0
  /\ startIndex = 0
  /\ endIndex = 0
  /\ travellerPositions = NoPositions
  /\ isTravellerMoving = FALSE
  /\ isSlideMoving = FALSE
  /\ movingTravellerId = "undefined"
  /\ brushMoveStartX = Undefined
  /\ slideMoveStartX = Undefined
  /\ isTextActive = FALSE
  /\ isTravellerFocused = FALSE
  /\ leaveTimer = FALSE
  /\ orphanTimers = <<>>
  /\ mounted = FALSE
  /\ alwaysShowText = FALSE
  /\ yHeightOk = TRUE
  /\ listeners = {}
  /\ calls = <<>>

\* the inputs of createScale whose coordinates are whole pixels
wholePixels(len, w, tw) ==
  IF len = 0 THEN TRUE ELSE (w - tw) % (IF len = 1 THEN 2 ELSE len - 1) = 0

InitScale ==
  /\ NoBrush
  /\ \E len \in 0..MaxScaleLen, x \in 0..MaxScaleX, w \in 0..MaxScaleWidth,
        tw \in ScaleTravellerWidths :
       /\ wholePixels(len, w, tw)
       /\ \E sIdx \in 0..Max2(0, len - 1) : \E eIdx \in sIdx..Max2(0, len - 1) :
            fnArgs = [fn |-> "createScale", len |-> len, startIndex |-> sIdx,
                      endIndex |-> eIdx, x |-> x, width |-> w, travellerWidth |-> tw]
  /\ fnRet = NoCall

\* RedoBrush, render: the scale of the data, or none without data
BuildScale ==
  /\ fnArgs.fn = "createScale"
  /\ fnRet = NoCall
  /\ fnRet' = [fn |-> "createScale",
               value |-> createScale(fnArgs.len, fnArgs.startIndex, fnArgs.endIndex,
                                     fnArgs.x, fnArgs.width, fnArgs.travellerWidth)]
  /\ UNCHANGED <<fnArgs, brushVars>>

NextScale == BuildScale

SpecScale == InitScale /\ [][NextScale]_vars

\* getIndexInRange followed one iteration at a time, over any table of
\* coordinates and any x around them
Tables == UNION {[1..n -> 0..MaxCoord] : n \in 1..MaxTableLen}
Probes == (0 - 1)..(MaxCoord + 1)

InitLocate ==
  /\ NoBrush
  /\ \E valueRange \in Tables, x \in Probes :
       fnArgs = [fn |-> "getIndexInRange", valueRange |-> valueRange, x |-> x]
  /\ fnRet = NoCall

\* getIndexInRange, up to its loop
LocateEnter ==
  /\ fnArgs.fn = "getIndexInRange"
  /\ fnRet = NoCall
  /\ fnRet' = [fn |-> "getIndexInRange", pc |-> "loop",
               start |-> 0, end |-> Len(fnArgs.valueRange) - 1]
  /\ UNCHANGED <<fnArgs, brushVars>>

\* getIndexInRange, one iteration
LocateNarrow ==
  /\ fnRet.fn = "getIndexInRange"
  /\ fnRet.pc = "loop"
  /\ searchContinues(fnRet.start, fnRet.end)
  /\ \E r \in {searchNarrow(fnArgs.valueRange, fnArgs.x, fnRet.start, fnRet.end)} :
       fnRet' = [fnRet EXCEPT !.start = r[1], !.end = r[2]]
  /\ UNCHANGED <<fnArgs, brushVars>>

\* getIndexInRange, after its loop
LocateReturn ==
  /\ fnRet.fn = "getIndexInRange"
  /\ fnRet.pc = "loop"
  /\ ~searchContinues(fnRet.start, fnRet.end)
  /\ fnRet' = [fn |-> "getIndexInRange", pc |-> "done",
               value |-> searchReturn(fnArgs.valueRange, fnArgs.x, fnRet.start, fnRet.end)]
  /\ UNCHANGED <<fnArgs, brushVars>>

NextLocate ==
  \/ LocateEnter
  \/ LocateNarrow
  \/ LocateReturn

SpecLocate == InitLocate /\ [][NextLocate]_vars

\* every step of a call that can be taken is taken
SpecLocateFair == SpecLocate /\ WF_vars(NextLocate)

\* getIndex alone, over the tables createScale builds and the coordinates
\* from one pixel before the least of a table to one pixel after its greatest
RECURSIVE leastOf(_)
leastOf(valueRange) ==
  IF Len(valueRange) = 1 THEN valueRange[1]
  ELSE Min2(valueRange[1], leastOf(Tail(valueRange)))

RECURSIVE greatestOf(_)
greatestOf(valueRange) ==
  IF Len(valueRange) = 1 THEN valueRange[1]
  ELSE Max2(valueRange[1], greatestOf(Tail(valueRange)))

coordinatesAround(valueRange) == (leastOf(valueRange) - 1)..(greatestOf(valueRange) + 1)

InitIndices ==
  /\ NoBrush
  /\ \E len \in 1..MaxIndicesLen, x \in 0..MaxScaleX, w \in 0..MaxScaleWidth,
        tw \in ScaleTravellerWidths, g \in 1..MaxGap :
       /\ wholePixels(len, w, tw)
       /\ \E table \in {createScale(len, 0, 0, x, w, tw).scaleValues} :
            \E startX \in coordinatesAround(table), endX \in coordinatesAround(table) :
              fnArgs = [fn |-> "getIndex", startX |-> startX, endX |-> endX,
                        scaleValues |-> table, gap |-> g, len |-> len]
  /\ fnRet = NoCall

\* getIndexInRange followed over the tables createScale builds
InitLocateScale ==
  /\ NoBrush
  /\ \E len \in 1..MaxIndicesLen, x \in 0..MaxScaleX, w \in 0..MaxScaleWidth,
        tw \in ScaleTravellerWidths :
       /\ wholePixels(len, w, tw)
       /\ \E table \in {createScale(len, 0, 0, x, w, tw).scaleValues} :
            \E probe \in coordinatesAround(table) :
              fnArgs = [fn |-> "getIndexInRange", valueRange |-> table, x |-> probe]
  /\ fnRet = NoCall

SpecLocateScale == InitLocateScale /\ [][NextLocate]_vars

ComputeIndices ==
  /\ fnArgs.fn = "getIndex"
  /\ fnRet = NoCall
  /\ fnRet' = [fn |-> "getIndex",
               value |-> getIndex(fnArgs.startX, fnArgs.endX, fnArgs.scaleValues,
                                  fnArgs.gap, fnArgs.len)]
  /\ UNCHANGED <<fnArgs, brushVars>>

NextIndices == ComputeIndices

SpecIndices == InitIndices /\ [][NextIndices]_vars

\* getIndex over every table of bounded length and bounded coordinates, in
\* any order, with the data as long as the table
InitIndicesTables ==
  /\ NoBrush
  /\ \E table \in Tables, g \in 1..MaxGap :
       \E startX \in coordinatesAround(table), endX \in coordinatesAround(table) :
         fnArgs = [fn |-> "getIndex", startX |-> startX, endX |-> endX,
                   scaleValues |-> table, gap |-> g, len |-> Len(table)]
  /\ fnRet = NoCall

SpecIndicesTables == InitIndicesTables /\ [][NextIndices]_vars

\* ------------------------------------------------------------- AxisDomain
\* the chart data of the axis tests, by the dataKey of the axis: x has six
\* distinct values, z has the same value first and last
chartDataX == <<100, 120, 170, 140, 150, 110>>
chartDataZ == <<200, 260, 400, 280, 500, 200>>
DataKeys == {"x", "z"}
valuesOf(dataKey) == IF dataKey = "x" THEN chartDataX ELSE chartDataZ

\* the values of the data points of the committed window, in source order
displayedValues(dataKey, sIdx, eIdx) ==
  SubSeq(valuesOf(dataKey), sIdx + 1, eIdx + 1)

hasDuplicate(values) ==
  \E i \in 1..Len(values), j \in 1..Len(values) : i # j /\ values[i] = values[j]

\* the values without the earlier occurrences of a value
RECURSIVE withoutEarlierDuplicates(_)
withoutEarlierDuplicates(values) ==
  IF values = <<>> THEN <<>>
  ELSE LET back == withoutEarlierDuplicates(Tail(values))
       IN IF \E i \in 1..Len(back) : back[i] = Head(values) THEN back
          ELSE <<Head(values)>> \o back

\* the values without the later occurrences of a value
RECURSIVE withoutDuplicates(_)
withoutDuplicates(values) ==
  IF values = <<>> THEN <<>>
  ELSE LET front == withoutDuplicates(SubSeq(values, 1, Len(values) - 1))
           last == values[Len(values)]
       IN IF \E i \in 1..Len(front) : front[i] = last THEN front
          ELSE Append(front, last)

\* a categorical domain that is the index range whatever the values
computeDomainAlwaysIndexes(values, allowDuplicatedCategory) ==
  IF allowDuplicatedCategory THEN [i \in 1..Len(values) |-> i - 1]
  ELSE withoutDuplicates(values)

\* the domain of a categorical axis: the values; their indexes when duplicates
\* are allowed and there is one; the values once each when they are not allowed
computeDomainOfTypeCategory(values, allowDuplicatedCategory) ==
  IF allowDuplicatedCategory /\ hasDuplicate(values)
  THEN [i \in 1..Len(values) |-> i - 1]
  ELSE IF allowDuplicatedCategory THEN values
       ELSE withoutDuplicates(values)

\* the ticks of a categorical axis: one per entry of the domain, numbered from
\* 0, with the value the entry stands for
ticksOfAxis(domain, values, allowDuplicatedCategory) ==
  [i \in 1..Len(domain) |->
     [value |-> IF allowDuplicatedCategory /\ hasDuplicate(values)
                THEN values[domain[i] + 1] ELSE domain[i],
      index |-> i - 1]]

\* tickCount as the axis is given it: a number, or one of the values that are
\* not a count
TickCounts ==
  {[kind |-> "number", n |-> n] : n \in (0 - 1)..MaxTickCount}
    \cup {[kind |-> kind, n |-> 0] : kind \in {"undefined", "Infinity", "NaN"}}

\* ticks that stop at tickCount when it is a count below the number of entries
categoricalTicksCounted(domain, values, allowDuplicatedCategory, tickCount) ==
  LET all == ticksOfAxis(domain, values, allowDuplicatedCategory)
  IN IF tickCount.kind = "number" /\ tickCount.n > 0 /\ tickCount.n < Len(all)
     THEN SubSeq(all, 1, tickCount.n) ELSE all

\* the ticks of a categorical axis that is given a tickCount: it is ignored
categoricalTicks(domain, values, allowDuplicatedCategory, tickCount) ==
  ticksOfAxis(domain, values, allowDuplicatedCategory)

\* the values of the data points of an axis: every short list of few
\* categories, and the two lists of the axis tests
CategoryLists ==
  UNION {[1..n -> 1..MaxCategory] : n \in 0..MaxCategories}
    \cup {chartDataX, chartDataZ}

InitDomain ==
  /\ NoBrush
  /\ \E values \in CategoryLists, allow \in BOOLEAN, tickCount \in TickCounts :
       fnArgs = [fn |-> "axisDomain", values |-> values,
                 allowDuplicatedCategory |-> allow, tickCount |-> tickCount]
  /\ fnRet = NoCall

SelectDomain ==
  /\ fnArgs.fn = "axisDomain"
  /\ fnRet = NoCall
  /\ \E domain \in {computeDomainOfTypeCategory(fnArgs.values,
                                                fnArgs.allowDuplicatedCategory)} :
       fnRet' = [fn |-> "axisDomain", domain |-> domain,
                 ticks |-> categoricalTicks(domain, fnArgs.values,
                                            fnArgs.allowDuplicatedCategory,
                                            fnArgs.tickCount)]
  /\ UNCHANGED <<fnArgs, brushVars>>

NextDomain == SelectDomain

SpecDomain == InitDomain /\ [][NextDomain]_vars

\* a brush over the chart data of the axis tests whose window the parent sets
InitAxis ==
  /\ InitLen(Len(chartDataX))
  /\ dataLen = Len(chartDataX)

NextAxis ==
  \E sIdx \in 0..(dataLen - 1) : \E eIdx \in sIdx..(dataLen - 1) : ExternalChange(sIdx, eIdx)

SpecAxis == InitAxis /\ [][NextAxis]_vars

\* ------------------------------------------------------------ TickSelector
\* the candidate ticks of an axis: count ticks in order, valueStep between the
\* values of two neighbours and pixelStep between their coordinates
candidateTicks(count, valueStep, pixelStep) ==
  [i \in 1..count |-> [value |-> (i - 1) * valueStep,
                       coordinate |-> (i - 1) * pixelStep,
                       index |-> i - 1]]

\* the ticks from the i-th on, n apart
RECURSIVE everyNth(_, _, _)
everyNth(ticks, i, n) ==
  IF i > Len(ticks) THEN <<>>
  ELSE <<ticks[i]>> \o everyNth(ticks, i + n, n)

\* the ticks i..stop that are minGap or more after the tick kept before them
\* and minGap or more before the coordinate reserved for the end
RECURSIVE fillFromStart(_, _, _, _, _, _)
fillFromStart(ticks, i, stop, previous, minGap, reservedEnd) ==
  IF i > stop THEN <<>>
  ELSE IF /\ ticks[i].coordinate - previous >= minGap
          /\ reservedEnd - ticks[i].coordinate >= minGap
       THEN <<ticks[i]>> \o fillFromStart(ticks, i + 1, stop, ticks[i].coordinate,
                                         minGap, reservedEnd)
       ELSE fillFromStart(ticks, i + 1, stop, previous, minGap, reservedEnd)

\* a fill that reserves nothing for the end
getTicksStartEndUnreserved(ticks, minGap) ==
  IF Len(ticks) <= 1 THEN ticks
  ELSE <<ticks[1]>>
         \o fillFromStart(ticks, 2, Len(ticks) - 1, ticks[1].coordinate, minGap,
                          ticks[Len(ticks)].coordinate + minGap)
         \o <<ticks[Len(ticks)]>>

\* preserveStartEnd: the first and the last tick, and between them the fill
\* from the start
getTicksStartEnd(ticks, minGap) ==
  IF Len(ticks) <= 1 THEN ticks
  ELSE <<ticks[1]>>
         \o fillFromStart(ticks, 2, Len(ticks) - 1, ticks[1].coordinate, minGap,
                          ticks[Len(ticks)].coordinate)
         \o <<ticks[Len(ticks)]>>

\* preserveStart: the first tick, and after it the fill from the start with
\* nothing reserved for the end
getTicksStart(ticks, minGap) ==
  IF ticks = <<>> THEN <<>>
  ELSE <<ticks[1]>>
         \o fillFromStart(ticks, 2, Len(ticks), ticks[1].coordinate, minGap,
                          ticks[Len(ticks)].coordinate + minGap)

\* the ticks i..1, walked backward, that are minGap or more before the tick
\* kept before them: in the order of the walk
RECURSIVE fillFromEnd(_, _, _, _)
fillFromEnd(ticks, i, previous, minGap) ==
  IF i < 1 THEN <<>>
  ELSE IF previous - ticks[i].coordinate >= minGap
       THEN <<ticks[i]>> \o fillFromEnd(ticks, i - 1, ticks[i].coordinate, minGap)
       ELSE fillFromEnd(ticks, i - 1, previous, minGap)

reverseTicks(ticks) == [i \in 1..Len(ticks) |-> ticks[Len(ticks) + 1 - i]]

\* a walk from the end whose ticks stay in the order of the walk
getTicksEndNotReversed(ticks, minGap) ==
  IF ticks = <<>> THEN <<>>
  ELSE <<ticks[Len(ticks)]>>
         \o fillFromEnd(ticks, Len(ticks) - 1, ticks[Len(ticks)].coordinate, minGap)

\* preserveEnd: the last tick and the fill from the end, back in ascending order
getTicksEnd(ticks, minGap) ==
  IF ticks = <<>> THEN <<>>
  ELSE reverseTicks(<<ticks[Len(ticks)]>>
         \o fillFromEnd(ticks, Len(ticks) - 1, ticks[Len(ticks)].coordinate, minGap))

\* an interval of k that keeps one tick in k
getNumberIntervalTicksEveryKth(ticks, interval) ==
  everyNth(ticks, 1, Max2(1, interval))

\* a number as interval: one tick in interval + 1
getNumberIntervalTicks(ticks, interval) ==
  everyNth(ticks, 1, interval + 1)

\* a selector that takes the interval 0 for no interval at all
getTicksZeroAsUnset(ticks, policy, interval, minGap) ==
  IF policy = "number" /\ interval # 0 THEN getNumberIntervalTicks(ticks, interval)
  ELSE getTicksStartEnd(ticks, minGap)

\* the ticks the axis renders
getTicks(ticks, policy, interval, minGap) ==
  IF policy = "number" THEN getNumberIntervalTicks(ticks, interval)
  ELSE IF policy = "preserveStart" THEN getTicksStart(ticks, minGap)
  ELSE IF policy = "preserveEnd" THEN getTicksEnd(ticks, minGap)
  ELSE getTicksStartEnd(ticks, minGap)

Policies == {"number", "preserveStart", "preserveEnd", "preserveStartEnd"}
TickValueSteps == {1, 45}

InitTicks ==
  /\ NoBrush
  /\ \E count \in 0..MaxTicks, valueStep \in TickValueSteps, pixelStep \in 1..MaxTickStep,
        policy \in Policies, minGap \in 0..MaxMinGap :
       \E interval \in IF policy = "number" THEN 0..MaxInterval ELSE {0} :
         fnArgs = [fn |-> "getTicks",
                   ticks |-> candidateTicks(count, valueStep, pixelStep),
                   policy |-> policy, interval |-> interval, minGap |-> minGap]
  /\ fnRet = NoCall

SelectTicks ==
  /\ fnArgs.fn = "getTicks"
  /\ fnRet = NoCall
  /\ fnRet' = [fn |-> "getTicks",
               value |-> getTicks(fnArgs.ticks, fnArgs.policy, fnArgs.interval,
                                  fnArgs.minGap)]
  /\ UNCHANGED <<fnArgs, brushVars>>

NextTicks == SelectTicks

SpecTicks == InitTicks /\ [][NextTicks]_vars

\* ------------------------------------------------------------------ claims
scaleValues == scaleValuesOf(dataLen, width)
trackEnd == brushX + width - TravellerWidth
lastCall == calls[Len(calls)]
calledFrom(fn, from) == calls # <<>> /\ calls[1].fn = fn /\ calls[1].from = from
windowOf(positions) == getIndex(positions.startX, positions.endX, scaleValues, gap, dataLen)

\* C1: every drag session ends with exactly one onDragEnd: a step that ends a
\* session calls onDragEnd, and onDragEnd is called only by a step that ends one.
C1_OnDragEndOncePerSession ==
  [][/\ isDragging /\ ~isDragging' => calls' # <<>> /\ calls'[1].fn = "onDragEnd"
     /\ calls' # <<>> /\ calls'[1].fn = "onDragEnd" => isDragging]_vars

\* C2: the window a traveller move passes to onChange is the window of the two
\* handle positions as they are after that move.
C2_ChangeIsWindowOfMovedPositions ==
  calledFrom("onChange", "handleTravellerMove") =>
    lastCall.arg = windowOf(travellerPositions)

\* C3: after an external change of the window with no drag in progress both
\* handles sit on the table coordinates of the new start and end index.
C3_ExternalChangeRebuildsPositions ==
  calledFrom("dispatch", "BrushInternal") /\ ~isDragging =>
    /\ travellerPositions.startX = scaleValues[startIndex + 1]
    /\ travellerPositions.endX = scaleValues[endIndex + 1]

\* C4: an external change of the window during a drag leaves the handle
\* positions, the drag mode, the active handle and the last pointer X as they were.
C4_ExternalChangeKeepsDrag ==
  [][isDragging /\ calls' # <<>> /\ calls'[1].fn = "dispatch" =>
       UNCHANGED <<travellerPositions, isTravellerMoving, isSlideMoving,
                   movingTravellerId, brushMoveStartX, slideMoveStartX>>]_vars

\* C4 happens: an external change arrived during a drag whose handles are not
\* where a rebuild from the new window would put them.
C4_Witness ==
  /\ calledFrom("dispatch", "BrushInternal")
  /\ isDragging
  /\ travellerPositions.startX # scaleValues[startIndex + 1]

\* C5: both handles stay within [x, x + width - travellerWidth].
C5_PositionsWithinTrack ==
  /\ travellerPositions.startX \in brushX..trackEnd
  /\ travellerPositions.endX \in brushX..trackEnd

\* C5 happens: the start handle was dragged past the end handle up to the end
\* of the track.
C5_Witness ==
  /\ calledFrom("onChange", "handleTravellerMove")
  /\ movingTravellerId = "startX"
  /\ travellerPositions.startX = trackEnd
  /\ travellerPositions.endX < trackEnd

\* what a traveller move makes of the handle positions: the moving handle at its
\* previous position plus the pointer delta, limited to the track; the other kept
clampToTrack(v) == Max2(brushX, Min2(trackEnd, v))
movedBy(pageX, positions) ==
  [positions EXCEPT ![movingTravellerId] =
     clampToTrack(positions[movingTravellerId] + pageX - brushMoveStartX)]

\* C6, as stated: a traveller move never takes the start handle past the end handle.
C6_HandlesNeverCross ==
  [][\A pageX \in PageXs :
       TravellerMove(pageX) /\ travellerPositions.startX <= travellerPositions.endX =>
         travellerPositions'.startX <= travellerPositions'.endX]_vars

\* C6, amended: a traveller move puts the moving handle at its previous position
\* plus the pointer delta, limited to [x, x + width - travellerWidth] and not to
\* the side of the other handle, and leaves the other handle where it is.
C6_MoveClampedToTrackOnly ==
  [][\A pageX \in PageXs :
       TravellerMove(pageX) => travellerPositions' = movedBy(pageX, travellerPositions)]_vars

\* C6 happens: a traveller move has taken the start handle past the end handle.
C6_Witness ==
  /\ calledFrom("onChange", "handleTravellerMove")
  /\ movingTravellerId = "startX"
  /\ travellerPositions.startX > travellerPositions.endX

gapAligned(window) ==
  /\ window.startIndex % gap = 0
  /\ window.endIndex % gap = 0 \/ window.endIndex = dataLen - 1

\* C7: a traveller move calls onChange only with a window on the gap boundaries
\* (each index a multiple of gap, the end index possibly the last index instead),
\* and it moves the handle whether it calls onChange or not.
C7_TravellerEmitsOnGapBoundary ==
  [][\A pageX \in PageXs :
       TravellerMove(pageX) =>
         /\ calls' # <<>> => gapAligned(calls'[1].arg)
         /\ calls' = <<>> => travellerPositions' = movedBy(pageX, travellerPositions)]_vars

\* C7 happens: with a gap above 1 a traveller move has called onChange with a
\* window that ends on a last index that is no multiple of the gap.
C7_Witness ==
  /\ calledFrom("onChange", "handleTravellerMove")
  /\ gap > 1
  /\ lastCall.arg.endIndex = dataLen - 1
  /\ (dataLen - 1) % gap # 0

\* C7 happens as well: a traveller move that calls nothing (both handles at the
\* end of the track, the last index no multiple of the gap) is possible here.
C7_WitnessSilent ==
  /\ isTravellerMoving
  /\ movingTravellerId = "startX"
  /\ travellerPositions.startX = travellerPositions.endX
  /\ ~isFullGap("startX", travellerPositions.startX, travellerPositions.endX,
                windowOf(travellerPositions).startIndex,
                windowOf(travellerPositions).endIndex, gap, dataLen)

\* C8: a slide move calls onChange exactly when the window of the shifted handle
\* positions differs from the committed window, and with that window.
C8_SlideEmitsIffWindowDiffers ==
  [][\A pageX \in PageXs :
       SlideDrag(pageX) =>
         LET shifted == windowOf(travellerPositions')
         IN /\ calls' # <<>> <=>
                 (shifted.startIndex # startIndex \/ shifted.endIndex # endIndex)
            /\ calls' # <<>> => calls'[1].arg = shifted]_vars

\* C8 happens: a slide move has called onChange while the start handle sits
\* between two table coordinates.
C8_Witness ==
  /\ calledFrom("onChange", "handleSlideDrag")
  /\ indexOf(scaleValues, travellerPositions.startX) = 0 - 1

\* C9: a slide move keeps the pixel distance between the two handles.
C9_SlideKeepsDistance ==
  [][\A pageX \in PageXs :
       SlideDrag(pageX) =>
         travellerPositions'.endX - travellerPositions'.startX
           = travellerPositions.endX - travellerPositions.startX]_vars

\* C9 happens: a slide has taken a window narrower than the track to the end of
\* the track.
C9_Witness ==
  /\ calledFrom("onChange", "handleSlideDrag")
  /\ travellerPositions.endX = trackEnd
  /\ travellerPositions.startX > brushX
  /\ travellerPositions.startX < travellerPositions.endX

\* the table coordinate a key press on handle id aims at, or Undefined when the
\* handle is on no table coordinate or the neighbour is outside the table
keyTarget(direction, id) ==
  LET currentIndex == indexOf(scaleValues, travellerPositions[id])
  IN IF currentIndex = 0 - 1 \/ currentIndex + direction < 0
        \/ currentIndex + direction >= Len(scaleValues)
     THEN Undefined
     ELSE scaleValues[currentIndex + direction + 1]

\* C10: a key press that aims the start handle at or past the end handle, or
\* the end handle at or before the start handle, changes neither a position nor
\* the window and calls nothing; no key press ends startX < endX.  (A key press
\* leaves the drag state alone, so only such steps are looked at.)
C10_KeyboardNeverInverts ==
  [][\A direction \in {0 - 1, 1}, id \in TravellerIds :
       (UNCHANGED <<isTravellerMoving, isSlideMoving, movingTravellerId,
                    brushMoveStartX, slideMoveStartX>>
          /\ TravellerMoveKeyboard(direction, id)) =>
         /\ travellerPositions.startX < travellerPositions.endX =>
              travellerPositions'.startX < travellerPositions'.endX
         /\ /\ keyTarget(direction, id) # Undefined
            /\ \/ id = "startX" /\ keyTarget(direction, id) >= travellerPositions.endX
               \/ id = "endX" /\ keyTarget(direction, id) <= travellerPositions.startX
            => /\ UNCHANGED <<travellerPositions, startIndex, endIndex>>
               /\ calls' = <<>>]_vars

\* C10 happens: a key press has brought the two handles to adjacent table
\* coordinates, where ArrowRight on the start handle aims at the end handle.
C10_Witness ==
  /\ calledFrom("onChange", "handleTravellerMoveKeyboard")
  /\ keyTarget(1, "startX") = travellerPositions.endX

\* C11: the window a key press passes to onChange is the window of the handle
\* positions after the press, and the pressed handle is then on a table coordinate.
C11_KeyboardChangeIsWindowAfterMove ==
  calledFrom("onChange", "handleTravellerMoveKeyboard") =>
    /\ lastCall.arg = windowOf(travellerPositions)
    /\ \/ indexOf(scaleValues, travellerPositions.startX) # 0 - 1
       \/ indexOf(scaleValues, travellerPositions.endX) # 0 - 1

firstCoordinate == scaleValues[1]
lastCoordinate == scaleValues[Len(scaleValues)]

\* C12: ArrowRight on the end handle at the last table coordinate and ArrowLeft
\* on the start handle at the first table coordinate call nothing and leave both
\* handle positions as they are.
C12_KeyboardNoOpAtTableEnds ==
  [][/\ travellerPositions.endX = lastCoordinate /\ TravellerMoveKeyboard(1, "endX") =>
          calls' = <<>> /\ UNCHANGED travellerPositions
     /\ travellerPositions.startX = firstCoordinate /\ TravellerMoveKeyboard(0 - 1, "startX") =>
          calls' = <<>> /\ UNCHANGED travellerPositions]_vars

\* C12 happens: with three data points the handles rest on the first and the last
\* table coordinate, away from the committed window, and the last event called
\* nothing; only ArrowLeft on the start handle or ArrowRight on the end handle
\* leads here.
C12_Witness ==
  /\ ~isDragging
  /\ calls = <<>>
  /\ Len(scaleValues) = 3
  /\ travellerPositions.startX = firstCoordinate
  /\ travellerPositions.endX = lastCoordinate
  /\ <<startIndex, endIndex>> # <<0, 2>>

\* C13: a move of a start-handle drag that takes the handle into another index
\* commits the window of the new positions (the one onChange that carries the new
\* startIndex), and the release passes that window to onDragEnd.
C13_StartDragFiresOneChange ==
  [][/\ \A pageX \in PageXs :
          (/\ TravellerMove(pageX)
           /\ movingTravellerId = "startX"
           /\ windowOf(travellerPositions) = [startIndex |-> startIndex, endIndex |-> endIndex]
           /\ windowOf(travellerPositions').startIndex # startIndex)
          => (/\ calls' # <<>>
              /\ calls'[1].arg = windowOf(travellerPositions')
              /\ startIndex' = windowOf(travellerPositions').startIndex)
     /\ (DragEnd /\ windowOf(travellerPositions) = [startIndex |-> startIndex, endIndex |-> endIndex])
          => calls' = <<Call("onDragEnd", "release", startIndex, endIndex)>>]_vars

pendingTimer == leaveTimer \/ orphanTimers # <<>>

\* C14: a leave timeout is pending only while a drag is in progress, and none is
\* pending after a move of the drag.
C14_PendingTimerOnlyInDrag ==
  [][/\ pendingTimer' => isDragging'
     /\ \A pageX \in PageXs :
          (TravellerMove(pageX) \/ SlideDrag(pageX)) => ~pendingTimer']_vars

\* C15: the listeners on window are the three of a drag while a drag is in
\* progress on the mounted component, and none otherwise.
C15_ListenersIffDragging ==
  listeners = IF mounted /\ isDragging THEN AllListeners ELSE {}

\* C15 happens: the component was unmounted in the middle of a traveller drag.
C15_Witness ==
  /\ ~mounted
  /\ isTravellerMoving
  /\ listeners = {}

\* C16: after the unmount no callback is called and no state changes.
C16_NothingAfterUnmount ==
  [][~mounted => UNCHANGED <<calls, reactState>>]_vars

\* C17: while a drag is in progress and the leave timeout is pending, an event
\* that is neither a move nor a release leaves it pending; when it fires the drag
\* ends; a pointer leave without a drag arms none.
C17_LeaveTimeoutFiresUnlessMoveOrRelease ==
  [][/\ (/\ isDragging /\ leaveTimer
         /\ \/ Keyboard
            \/ \E sIdx, eIdx \in 0..(dataLen - 1) : ExternalChange(sIdx, eIdx))
        => leaveTimer'
     /\ LeaveTimeout => ~isDragging'
     /\ (~isDragging /\ LeaveWrapper) => ~leaveTimer']_vars

\* C19, as stated: the index labels are visible after an enter or a focus, and
\* hidden after a leave or a blur unless a drag is in progress or alwaysShowText
\* is set.
C19_LeaveOrBlurHidesText ==
  [][/\ (SetTextActive(TRUE) \/ SetTravellerFocused(TRUE)) => isTextVisible'
     /\ (SetTextActive(FALSE) \/ SetTravellerFocused(FALSE)) =>
          (isTextVisible' <=> isDragging \/ alwaysShowText)]_vars

\* C19, amended: the index labels are visible after an enter or a focus; after a
\* leave they are visible exactly when a drag is in progress, alwaysShowText is
\* set or a handle has the focus; after a blur exactly when a drag is in
\* progress, alwaysShowText is set or the pointer is over a handle or the slide.
C19_TextHiddenUnlessOtherReason ==
  [][/\ (SetTextActive(TRUE) \/ SetTravellerFocused(TRUE)) => isTextVisible'
     /\ SetTextActive(FALSE) =>
          (isTextVisible' <=> isDragging \/ alwaysShowText \/ isTravellerFocused)
     /\ SetTravellerFocused(FALSE) =>
          (isTextVisible' <=> isDragging \/ alwaysShowText \/ isTextActive)]_vars

\* C19 happens: the labels are visible for the focus of a handle alone: the
\* pointer is outside (the state a leave ends in), no drag is in progress and
\* alwaysShowText is off.
C19_Witness ==
  /\ isTextVisible
  /\ isTravellerFocused
  /\ ~isTextActive
  /\ ~isDragging
  /\ ~alwaysShowText
  /\ calls = <<>>

committed == [startIndex |-> startIndex, endIndex |-> endIndex]

\* C20: when a handler emits a window, the user's onChange is called and the
\* committed window changes exactly when the window differs from the committed
\* one, both with that window; for a window equal to the committed one nothing is
\* called and the committed window stays.
C20_UserChangeIffWindowDiffers ==
  [][calls' # <<>> /\ calls'[1].fn = "onChange" =>
       IF calls'[1].arg # committed
       THEN /\ Len(calls') = 2
            /\ calls'[2].fn = "onChangeFromProps"
            /\ calls'[2].arg = calls'[1].arg
            /\ committed' = calls'[1].arg
       ELSE /\ Len(calls') = 1
            /\ committed' = committed]_vars

\* C20 happens: a handler has emitted the committed window and nothing was called.
C20_Witness ==
  /\ Len(calls) = 1
  /\ calls[1].fn = "onChange"
  /\ calls[1].arg = committed

\* C18: a render with degenerate inputs (no data, a width or height that is not
\* positive, a y or height that is no number) initialises no handle positions, and
\* while the inputs are degenerate no drag starts.
C18_DegenerateIsNoOp ==
  [][/\ (~rendersBrush' /\ travellerPositions = NoPositions) =>
          travellerPositions' = NoPositions
     /\ ~rendersBrush =>
          /\ ~ \E id \in TravellerIds, pageX \in PageXs : TravellerDragStart(id, pageX)
          /\ ~ \E pageX \in PageXs : SlideDragStart(pageX)]_vars

\* ------------------------------------------------------------ PositionalScale
scaleBuilt == fnRet.fn = "createScale"
builtTable == fnRet.value.scaleValues
rangeStart == fnArgs.x
rangeEnd == fnArgs.x + fnArgs.width - fnArgs.travellerWidth

\* C21 (as stated): for dataLength >= 1 and pixelWidth > travellerWidth the
\* scale maps index 0 to pixelStart and index dataLength-1 to
\* pixelStart + pixelWidth - travellerWidth, also for dataLength = 1
C21_EndsOfTableAtEndsOfRange ==
  (scaleBuilt /\ fnArgs.len >= 1 /\ fnArgs.width > fnArgs.travellerWidth)
    => /\ builtTable[1] = rangeStart
       /\ builtTable[fnArgs.len] = rangeEnd

\* C21 (amended): with two data points or more the first index is at the start
\* of the range and the last index at its end; the only index of a single data
\* point is at the middle of the range
C21_EndsOfRangeOrMiddle ==
  (scaleBuilt /\ fnArgs.len >= 1 /\ fnArgs.width > fnArgs.travellerWidth)
    => IF fnArgs.len = 1
       THEN 2 * builtTable[1] = rangeStart + rangeEnd
       ELSE /\ builtTable[1] = rangeStart
            /\ builtTable[fnArgs.len] = rangeEnd

C21_Witness ==
  /\ scaleBuilt
  /\ fnArgs.len = 1
  /\ fnArgs.width > fnArgs.travellerWidth
  /\ builtTable[1] > rangeStart

\* C22: the scale is empty (no coordinate table, no start and end coordinate)
\* whenever dataLength < 1 or pixelWidth <= handleWidth
C22_EmptyScaleOnInvalidInput ==
  (scaleBuilt /\ (fnArgs.len < 1 \/ fnArgs.width <= fnArgs.travellerWidth))
    => fnRet.value = EmptyScale


\* --------------------------------------------------------------- IndexLocator
located == fnRet.fn = "getIndexInRange" /\ fnRet.pc = "done"
nonDecreasing(valueRange) ==
  \A i \in 1..(Len(valueRange) - 1) : valueRange[i] <= valueRange[i + 1]

\* C23: over a non-decreasing coordinate table the lookup is monotonic: for
\* all x1 < x2 the index of x1 is at most the index of x2
C23_LocateMonotonic ==
  (located /\ nonDecreasing(fnArgs.valueRange))
    => \A x2 \in Probes :
         fnArgs.x < x2 => fnRet.value <= getIndexInRange(fnArgs.valueRange, x2)

C23_Witness ==
  /\ located
  /\ nonDecreasing(fnArgs.valueRange)
  /\ Len(fnArgs.valueRange) = MaxTableLen
  /\ \E x2 \in Probes :
       fnArgs.x < x2 /\ fnRet.value < getIndexInRange(fnArgs.valueRange, x2)

\* C24: the lookup ends for every table of one coordinate or more, sorted or
\* not, with or without duplicates: every iteration leaves a strictly smaller
\* interval within the table, the call ends, what it returns is an index of
\* the table, and it is 0 when the table has one coordinate
C24_LocateTerminates ==
  /\ [][LocateNarrow => /\ fnRet'.end - fnRet'.start < fnRet.end - fnRet.start
                        /\ 0 <= fnRet'.start
                        /\ fnRet'.start < fnRet'.end
                        /\ fnRet'.end <= Len(fnArgs.valueRange) - 1]_vars
  /\ [](located => /\ fnRet.value \in 0..(Len(fnArgs.valueRange) - 1)
                   /\ Len(fnArgs.valueRange) = 1 => fnRet.value = 0)
  /\ <>located

C24_Witness ==
  /\ located
  /\ Len(fnArgs.valueRange) = MaxTableLen
  /\ ~nonDecreasing(fnArgs.valueRange)
  /\ \E i \in 1..(MaxTableLen - 1) : fnArgs.valueRange[i] = fnArgs.valueRange[i + 1]


\* --------------------------------------------------------------- getIndex
indicesComputed == fnRet.fn = "getIndex"
argLastIndex == fnArgs.len - 1
argMin == Min2(fnArgs.startX, fnArgs.endX)
argMax == Max2(fnArgs.startX, fnArgs.endX)

\* C25: for every gap above 1 and every pair of coordinates both indices are
\* multiples of the gap, except that endIndex may be the last index; for gap 1
\* the indices are the index of the lesser coordinate and the index of the
\* greater one
C25_IndicesOnGapBoundary ==
  indicesComputed
    => /\ fnArgs.gap > 1
            => /\ fnRet.value.startIndex % fnArgs.gap = 0
               /\ \/ fnRet.value.endIndex % fnArgs.gap = 0
                  \/ fnRet.value.endIndex = argLastIndex
       /\ fnArgs.gap = 1
            => fnRet.value = [startIndex |-> getIndexInRange(fnArgs.scaleValues, argMin),
                              endIndex |-> getIndexInRange(fnArgs.scaleValues, argMax)]

C25_Witness ==
  /\ indicesComputed
  /\ fnArgs.gap > 1
  /\ getIndexInRange(fnArgs.scaleValues, argMin) % fnArgs.gap # 0
  /\ fnRet.value.endIndex = argLastIndex
  /\ argLastIndex % fnArgs.gap # 0

\* C26: for any gap, whenever the greater of the two coordinates is at or
\* beyond the last coordinate of the table, endIndex is the last index
C26_LastIndexReachable ==
  (indicesComputed /\ argMax >= fnArgs.scaleValues[fnArgs.len])
    => fnRet.value.endIndex = argLastIndex

\* the same over the tables whose coordinates do not decrease
C26_LastIndexReachableInOrder ==
  (indicesComputed /\ nonDecreasing(fnArgs.scaleValues)
     /\ argMax >= fnArgs.scaleValues[fnArgs.len])
    => fnRet.value.endIndex = argLastIndex


\* ------------------------------------------------------------- AxisDomain
\* the axis with allowDuplicatedCategory left at its default
windowValues(dataKey) == displayedValues(dataKey, startIndex, endIndex)
axisDomain(dataKey) == computeDomainOfTypeCategory(windowValues(dataKey), TRUE)
axisTicks(dataKey) == ticksOfAxis(axisDomain(dataKey), windowValues(dataKey), TRUE)
renumbered(values) == [i \in 1..Len(values) |-> [value |-> values[i], index |-> i - 1]]

ticksSelected == fnRet.fn = "getTicks"
selected == fnRet.value
valuesOfTicks(ticks) == [i \in 1..Len(ticks) |-> ticks[i].value]
positionsOfTicks(ticks) == [i \in 1..Len(ticks) |-> ticks[i].index]
overlapping == fnArgs.minGap > fnArgs.ticks[2].coordinate - fnArgs.ticks[1].coordinate

\* C28: with interval = 0 there is one tick per domain value, in domain order,
\* whatever the overlap of the labels and the width
C28_IntervalZeroKeepsEveryTick ==
  (ticksSelected /\ fnArgs.policy = "number" /\ fnArgs.interval = 0)
    => selected = fnArgs.ticks

\* the six ticks of the categorical axis test, closer than the minimum gap
C28_Witness ==
  /\ ticksSelected
  /\ fnArgs.policy = "number"
  /\ fnArgs.interval = 0
  /\ Len(fnArgs.ticks) = 6
  /\ overlapping
  /\ positionsOfTicks(selected) = <<0, 1, 2, 3, 4, 5>>

\* C29: with an integer interval k > 0 the ticks are the candidate ticks at
\* the positions 0, k+1, 2(k+1), ... of the ordered list, in order
C29_IntervalKeepsEveryKPlusFirst ==
  (ticksSelected /\ fnArgs.policy = "number" /\ fnArgs.interval > 0)
    => LET n == fnArgs.interval + 1
           kept == {i \in 0..(Len(fnArgs.ticks) - 1) : i % n = 0}
       IN /\ Len(selected) = Cardinality(kept)
          /\ \A j \in 1..Len(selected) : selected[j] = fnArgs.ticks[(j - 1) * n + 1]

\* the five ticks 0..180 of the number axis test with interval 1
C29_Witness ==
  /\ ticksSelected
  /\ fnArgs.policy = "number"
  /\ fnArgs.interval = 1
  /\ valuesOfTicks(fnArgs.ticks) = <<0, 45, 90, 135, 180>>
  /\ valuesOfTicks(selected) = <<0, 90, 180>>

\* C30: with preserveStartEnd the first and the last tick are always among
\* the ticks, for any number of candidates and any minimum gap; a tick between
\* them is kept, from the start forward, only if it is the minimum gap or more
\* after the tick kept before it and the minimum gap or more before the last
C30_StartEndKeepsBothEnds ==
  (ticksSelected /\ fnArgs.policy = "preserveStartEnd" /\ fnArgs.ticks # <<>>)
    => /\ selected[1] = fnArgs.ticks[1]
       /\ selected[Len(selected)] = fnArgs.ticks[Len(fnArgs.ticks)]
       /\ \A j \in 1..(Len(selected) - 1) : selected[j].index < selected[j + 1].index
       /\ \A j \in 1..Len(selected) : selected[j] = fnArgs.ticks[selected[j].index + 1]
       /\ \A j \in 2..(Len(selected) - 1) :
            /\ selected[j].coordinate - selected[j - 1].coordinate >= fnArgs.minGap
            /\ selected[Len(selected)].coordinate - selected[j].coordinate >= fnArgs.minGap

\* the six ticks of the categorical axis test, one pixel apart with a minimum
\* gap of two: the first, the third and the last are kept
C30_Witness ==
  /\ ticksSelected
  /\ fnArgs.policy = "preserveStartEnd"
  /\ Len(fnArgs.ticks) = 6
  /\ fnArgs.minGap = 2
  /\ positionsOfTicks(selected) = <<0, 2, 5>>


\* the selected ticks are candidates, in ascending order
inDomainOrder ==
  /\ \A j \in 1..(Len(selected) - 1) : selected[j].index < selected[j + 1].index
  /\ \A j \in 1..Len(selected) : selected[j] = fnArgs.ticks[selected[j].index + 1]

\* C31: preserveEnd always keeps the last tick and keeps an earlier one only
\* if it is the minimum gap or more before the one kept after it; the ticks come
\* back in ascending order; preserveStart always keeps the first tick and keeps
\* a later one only if it is the minimum gap or more after the one kept before
C31_StartOrEndKeptAndGapsRespected ==
  (ticksSelected /\ fnArgs.policy \in {"preserveStart", "preserveEnd"}
     /\ fnArgs.ticks # <<>>)
    => /\ inDomainOrder
       /\ fnArgs.policy = "preserveEnd"
            => selected[Len(selected)] = fnArgs.ticks[Len(fnArgs.ticks)]
       /\ fnArgs.policy = "preserveStart" => selected[1] = fnArgs.ticks[1]
       /\ \A j \in 1..(Len(selected) - 1) :
            selected[j + 1].coordinate - selected[j].coordinate >= fnArgs.minGap

\* the six ticks of the categorical axis test, one pixel apart with a minimum
\* gap of two: preserveEnd keeps the second, the fourth and the last
C31_Witness ==
  /\ ticksSelected
  /\ fnArgs.policy = "preserveEnd"
  /\ Len(fnArgs.ticks) = 6
  /\ fnArgs.minGap = 2
  /\ positionsOfTicks(selected) = <<1, 3, 5>>

\* the same ticks with preserveStart: the first, the third and the fifth
C31_WitnessStart ==
  /\ ticksSelected
  /\ fnArgs.policy = "preserveStart"
  /\ Len(fnArgs.ticks) = 6
  /\ fnArgs.minGap = 2
  /\ positionsOfTicks(selected) = <<0, 2, 4>>


\* ---------------------------------------------------- categorical domain
domainComputed == fnRet.fn = "axisDomain"
firstOccurrence(values, v) ==
  CHOOSE i \in 1..Len(values) : values[i] = v /\ \A j \in 1..(i - 1) : values[j] # v

\* C32: with allowDuplicatedCategory = false the domain is the data values
\* without every later duplicate, in the order of the first occurrences (never
\* sorted), and there is one tick per value that is left
C32_DomainIsFirstOccurrences ==
  (domainComputed /\ ~fnArgs.allowDuplicatedCategory)
    => /\ ~hasDuplicate(fnRet.domain)
       /\ \A i \in 1..Len(fnArgs.values) :
            \E j \in 1..Len(fnRet.domain) : fnRet.domain[j] = fnArgs.values[i]
       /\ \A j \in 1..Len(fnRet.domain) :
            \E i \in 1..Len(fnArgs.values) : fnRet.domain[j] = fnArgs.values[i]
       /\ \A j \in 1..(Len(fnRet.domain) - 1) :
            firstOccurrence(fnArgs.values, fnRet.domain[j])
              < firstOccurrence(fnArgs.values, fnRet.domain[j + 1])
       /\ Len(fnRet.ticks) = Len(fnRet.domain)
       /\ \A j \in 1..Len(fnRet.ticks) : fnRet.ticks[j].value = fnRet.domain[j]

\* the z values of the axis tests: the second 200 is dropped, nothing is sorted
C32_Witness ==
  /\ domainComputed
  /\ ~fnArgs.allowDuplicatedCategory
  /\ fnArgs.values = chartDataZ
  /\ fnRet.domain = <<200, 260, 400, 280, 500>>
  /\ Len(fnRet.ticks) = 5

strictlyBetween(valueRange, x, i) == valueRange[i + 1] < x /\ x < valueRange[i + 2]

\* C34 (as stated): the lookup returns the index whose coordinate is nearest
\* to x: for x between two adjacent coordinates, the one of the two with the
\* smaller distance to x
C34_LocateReturnsNearest ==
  located
    => \A i \in 0..(Len(fnArgs.valueRange) - 2) :
         strictlyBetween(fnArgs.valueRange, fnArgs.x, i)
           => /\ fnArgs.x - fnArgs.valueRange[i + 1] < fnArgs.valueRange[i + 2] - fnArgs.x
                   => fnRet.value = i
              /\ fnArgs.valueRange[i + 2] - fnArgs.x < fnArgs.x - fnArgs.valueRange[i + 1]
                   => fnRet.value = i + 1

\* C34 (amended): over a table that does not decrease the lookup returns the
\* greatest index whose coordinate is at or below x, and 0 when x is below
\* every coordinate: for x strictly between two adjacent coordinates it is the
\* lower index, whatever the distances
C34_LocateReturnsLowerNeighbour ==
  (located /\ nonDecreasing(fnArgs.valueRange))
    => /\ \A i \in 0..(Len(fnArgs.valueRange) - 2) :
            strictlyBetween(fnArgs.valueRange, fnArgs.x, i) => fnRet.value = i
       /\ fnArgs.x < fnArgs.valueRange[1] => fnRet.value = 0
       /\ fnArgs.x >= fnArgs.valueRange[1]
            => /\ fnArgs.valueRange[fnRet.value + 1] <= fnArgs.x
               /\ \A j \in (fnRet.value + 1)..(Len(fnArgs.valueRange) - 1) :
                    fnArgs.valueRange[j + 1] > fnArgs.x

\* x is nearer to the upper of two adjacent coordinates and the lower is returned
C34_Witness ==
  /\ located
  /\ nonDecreasing(fnArgs.valueRange)
  /\ \E i \in 0..(Len(fnArgs.valueRange) - 2) :
       /\ strictlyBetween(fnArgs.valueRange, fnArgs.x, i)
       /\ fnArgs.valueRange[i + 2] - fnArgs.x < fnArgs.x - fnArgs.valueRange[i + 1]
       /\ fnRet.value = i


\* ------------------------------------------------------------ end of a drag
\* C35: when a drag session (traveller or slide) ends, the committed window,
\* which is also what onDragEnd is passed, is the window of the two final
\* handle positions
C35_DragEndsOnWindowOfPositions ==
  [][DragEnd => /\ calls'[1].arg = committed'
                /\ committed' = windowOf(travellerPositions')]_vars

\* the same with gap 1, where the window of the first render is the window of
\* the handle positions
C35_DragEndsOnWindowOfPositionsGapOne ==
  [][(DragEnd /\ gap = 1)
       => /\ calls'[1].arg = committed'
          /\ committed' = windowOf(travellerPositions')]_vars

\* C36: the traveller-drag and slide-drag flags are never both set, and while a
\* traveller is dragged the moving traveller is the start or the end handle
C36_OneDragModeAtATime ==
  /\ ~(isTravellerMoving /\ isSlideMoving)
  /\ isTravellerMoving => movingTravellerId \in TravellerIds

\* a traveller is dragged in a component whose slide has been grabbed before
C36_Witness ==
  /\ isTravellerMoving
  /\ ~isSlideMoving
  /\ movingTravellerId = "endX"
  /\ slideMoveStartX # Undefined

\* the mode of the drag session, its handle and its recorded start positions
sessionOf == <<isTravellerMoving, isSlideMoving, movingTravellerId,
               brushMoveStartX, slideMoveStartX>>

\* C37: a pointer-down or touch-start on a handle or on the slide while a drag
\* session is active leaves the session's mode, handle and recorded start
\* position as they are
C37_DragStartOnlyFromIdle ==
  [][/\ \A id \in TravellerIds, pageX \in PageXs :
          (isDragging /\ TravellerDragStart(id, pageX)) => UNCHANGED sessionOf
     /\ \A pageX \in PageXs :
          (isDragging /\ SlideDragStart(pageX)) => UNCHANGED sessionOf]_vars

\* C38: for every table, every gap and every pair of coordinates, in either
\* order, getIndex returns 0 <= startIndex <= endIndex <= lastIndex
C38_WindowNeverReversed ==
  indicesComputed
    => /\ 0 <= fnRet.value.startIndex
       /\ fnRet.value.startIndex <= fnRet.value.endIndex
       /\ fnRet.value.endIndex <= argLastIndex

\* the start coordinate is right of the end coordinate, the two are in
\* different cells of the table and the gap is above 1
C38_Witness ==
  /\ indicesComputed
  /\ fnArgs.startX > fnArgs.endX
  /\ fnArgs.gap > 1
  /\ fnRet.value.startIndex < fnRet.value.endIndex
  /\ fnRet.value.endIndex < argLastIndex

\* the table coordinates on the side of position p a key press moves to
beyond(table, p, direction) ==
  {table[i] : i \in {j \in 1..Len(table) :
                       IF direction = 1 THEN table[j] > p ELSE table[j] < p}}

\* the table coordinate adjacent to position p in the direction of a key press
adjacent(table, p, direction) ==
  CHOOSE v \in beyond(table, p, direction) :
    \A u \in beyond(table, p, direction) :
      IF direction = 1 THEN v <= u ELSE v >= u

\* the move of handle id to the adjacent coordinate is inside the table and
\* leaves the start handle left of the end handle
keyboardMovePossible(table, id, direction) ==
  /\ beyond(table, travellerPositions[id], direction) # {}
  /\ id = "startX"
       => adjacent(table, travellerPositions[id], direction) < travellerPositions.endX
  /\ id = "endX"
       => adjacent(table, travellerPositions[id], direction) > travellerPositions.startX

onTable(table, p) == \E i \in 1..Len(table) : table[i] = p

\* C39: ArrowLeft or ArrowRight on a handle moves it to the adjacent table
\* coordinate whenever that move is inside the table and does not invert the
\* handles, wherever a pointer drag has left the handle
C39_KeyboardMovesToAdjacent ==
  [][\A direction \in {0 - 1, 1}, id \in TravellerIds :
       (/\ TravellerMoveKeyboard(direction, id)
        /\ keyboardMovePossible(scaleValues, id, direction))
         => travellerPositions'[id]
              = adjacent(scaleValues, travellerPositions[id], direction)]_vars

\* the same for a handle that is on a table coordinate
C39_KeyboardMovesToAdjacentOnTable ==
  [][\A direction \in {0 - 1, 1}, id \in TravellerIds :
       (/\ TravellerMoveKeyboard(direction, id)
        /\ onTable(scaleValues, travellerPositions[id])
        /\ keyboardMovePossible(scaleValues, id, direction))
         => travellerPositions'[id]
              = adjacent(scaleValues, travellerPositions[id], direction)]_vars

\* the leave timeouts that are yet to fire: the one leaveTimerRef holds and
\* the ones whose id it no longer holds
outstandingTimers == Len(orphanTimers) + (IF leaveTimer THEN 1 ELSE 0)

\* C40: at most one leave timeout is outstanding at any time, so that none is
\* left that can no longer be cancelled and later fires handleDragEnd
C40_OneLeaveTimerOutstanding == outstandingTimers <= 1

====
